---- MODULE Spec2Model ----
(***************************************************************************)
(* Model of Python/makeMold.py: the command-line entry point, the pipeline *)
(* create_negative_space_mold and the helper create_pour_spout.            *)
(*                                                                         *)
(* Lengths are integers counting 1/20 mm, so that every quantity the       *)
(* script derives from a bounding box given in multiples of 5 mm (halves,  *)
(* quarters, the 0.4 factor, the 2.5 mm radii) is exact.  Floating-point   *)
(* rounding is below that resolution and is not modelled.                  *)
(*                                                                         *)
(* A solid is the axis-aligned box that fills its bounding box; a region   *)
(* of mold material is a finite set of boxes with disjoint interiors; a    *)
(* cylinder has its axis along z, as trimesh.creation.cylinder builds it.  *)
(* Two solids intersect when they share a set of positive volume.          *)
(***************************************************************************)
EXTENDS Integers, FiniteSets, Sequences, TLC

\* ---------------------------------------------------------------- bounds
\* Bounding-box sizes of the input solid are 5 mm * (1..MaxSize) on each axis;
\* its minimum corner is (-25 mm * k) on every axis, k in 0..MaxShift.
MaxSize == 10
MaxShift == 1

mm(x) == x * 20

SizeStep == mm(5)
ShiftStep == mm(25)

\* ------------------------------------------------------------- geometry
Max2(a, b) == IF a >= b THEN a ELSE b
Min2(a, b) == IF a <= b THEN a ELSE b

Axes == 1..3

VecAdd(u, v) == [i \in Axes |-> u[i] + v[i]]
VecSub(u, v) == [i \in Axes |-> u[i] - v[i]]
VecAddScalar(u, s) == [i \in Axes |-> u[i] + s]
VecHalf(u) == [i \in Axes |-> u[i] \div 2]

Origin == <<0, 0, 0>>
NoBox == [lo |-> Origin, hi |-> Origin]
NoCylinder == [centre |-> Origin, radius |-> 0, height |-> 0]
NoMesh == [kind |-> "none", bounds |-> <<Origin, Origin>>, is_watertight |-> FALSE]
NoHalf == [base |-> {}, added |-> {}, removed |-> {}]

\* trimesh.creation.box(extents, transform = translation_matrix(centre))
CreationBox(extents, centre) ==
    [lo |-> [i \in Axes |-> centre[i] - extents[i] \div 2],
     hi |-> [i \in Axes |-> centre[i] + extents[i] \div 2]]

\* trimesh.creation.cylinder(radius, height): centred on the origin, axis z
CreationCylinder(radius, height) ==
    [centre |-> Origin, radius |-> radius, height |-> height]

\* Trimesh.apply_translation
ApplyTranslation(cyl, t) == [cyl EXCEPT !.centre = VecAdd(cyl.centre, t)]

BoxHasVolume(b) == \A i \in Axes : b.lo[i] < b.hi[i]

BoxIntersection(a, b) ==
    [lo |-> [i \in Axes |-> Max2(a.lo[i], b.lo[i])],
     hi |-> [i \in Axes |-> Min2(a.hi[i], b.hi[i])]]

BoxInBox(a, b) == \A i \in Axes : b.lo[i] <= a.lo[i] /\ a.hi[i] <= b.hi[i]

\* box a minus box b, as at most six slabs with disjoint interiors
BoxMinusBox(a, b) ==
    LET c == BoxIntersection(a, b)
        slabs ==
          { [lo |-> a.lo, hi |-> <<a.hi[1], a.hi[2], c.lo[3]>>],
            [lo |-> <<a.lo[1], a.lo[2], c.hi[3]>>, hi |-> a.hi],
            [lo |-> <<a.lo[1], a.lo[2], c.lo[3]>>, hi |-> <<c.lo[1], a.hi[2], c.hi[3]>>],
            [lo |-> <<c.hi[1], a.lo[2], c.lo[3]>>, hi |-> <<a.hi[1], a.hi[2], c.hi[3]>>],
            [lo |-> <<c.lo[1], a.lo[2], c.lo[3]>>, hi |-> <<c.hi[1], c.lo[2], c.hi[3]>>],
            [lo |-> <<c.lo[1], c.hi[2], c.lo[3]>>, hi |-> <<c.hi[1], a.hi[2], c.hi[3]>>] }
    IN  IF BoxHasVolume(c) THEN { s \in slabs : BoxHasVolume(s) }
        ELSE { s \in {a} : BoxHasVolume(s) }

\* trimesh.boolean.difference([box, mesh]) for a mesh that fills its bounds
BooleanDifferenceBox(block, mesh) ==
    BoxMinusBox(block, [lo |-> mesh.bounds[1], hi |-> mesh.bounds[2]])

\* trimesh.boolean.intersection([region, box])
BooleanIntersectionBox(region, box) ==
    { BoxIntersection(m, box) : m \in { n \in region : BoxHasVolume(BoxIntersection(n, box)) } }

\* distance from coordinate c to the interval [lo, hi]
AxisGap(c, lo, hi) == Max2(Max2(lo - c, c - hi), 0)

\* a z-axis cylinder and a box share a set of positive volume
CylinderMeetsBox(cyl, b) ==
    LET dx == AxisGap(cyl.centre[1], b.lo[1], b.hi[1])
        dy == AxisGap(cyl.centre[2], b.lo[2], b.hi[2])
        zlo == Max2(cyl.centre[3] - cyl.height \div 2, b.lo[3])
        zhi == Min2(cyl.centre[3] + cyl.height \div 2, b.hi[3])
    IN  /\ BoxHasVolume(b)
        /\ cyl.radius > 0
        /\ zlo < zhi
        /\ dx * dx + dy * dy < cyl.radius * cyl.radius

\* trimesh.boolean.intersection([cylinder, region]).is_empty
CylinderIntersectionIsEmpty(cyl, region) ==
    ~ \E m \in region : CylinderMeetsBox(cyl, m)

\* trimesh.boolean.union([half, cylinder]) / difference([half, cylinder]):
\* a half is (base + added cylinders) - removed cylinders
BooleanUnionCylinder(half, cyl) == [half EXCEPT !.added = half.added \cup {cyl}]
BooleanDifferenceCylinder(half, cyl) == [half EXCEPT !.removed = half.removed \cup {cyl}]

\* ------------------------------------------------------------ constants
wall_thickness == mm(10)
spout_radius == mm(5) \div 2
SpoutLength(min_c, max_c) == ((max_c[1] - min_c[1]) * 4) \div 10
key_radius == wall_thickness \div 4
key_height == wall_thickness

\* ------------------------------------------------- create_pour_spout
SpoutPosition(wt, min_c, max_c, zs) ==
    << min_c[1] + wt, (min_c[2] + max_c[2]) \div 2, zs - wt >>

PourSpoutGeometry(wt, min_c, max_c, zs) ==
    LET spout_length == SpoutLength(min_c, max_c)
        spout_position == SpoutPosition(wt, min_c, max_c, zs)
    IN  ApplyTranslation(CreationCylinder(spout_radius, spout_length),
                         << spout_position[1] + spout_length \div 2,
                            spout_position[2],
                            spout_position[3] >>)

\* the test of line 35: TRUE when create_pour_spout raises ValueError
SpoutRejected(spout, cavity_mold) == CylinderIntersectionIsEmpty(spout, cavity_mold)

\* ------------------------------------------- create_negative_space_mold
MinCorner(mesh, wt) == VecAddScalar(mesh.bounds[1], -wt)
\* variant: no wall added on the maximum side
MaxCorner_NoMargin(mesh, wt) == mesh.bounds[2]
MaxCorner(mesh, wt) == VecAddScalar(mesh.bounds[2], wt)
MoldBlockSize(min_c, max_c) == VecSub(max_c, min_c)
MoldBlock(min_c, max_c) ==
    CreationBox(MoldBlockSize(min_c, max_c), VecHalf(VecAdd(min_c, max_c)))

ZSplit(min_c, max_c) == (min_c[3] + max_c[3]) \div 2

TopSplitBox(min_c, max_c) ==
    LET size == MoldBlockSize(min_c, max_c)
        zs == ZSplit(min_c, max_c)
    IN  CreationBox(<< size[1], size[2], size[3] \div 2 >>,
                    << (min_c[1] + max_c[1]) \div 2,
                       (min_c[2] + max_c[2]) \div 2,
                       zs + size[3] \div 4 >>)

\* variant: the bottom box offset upwards like the top box
BottomSplitBox_Above(min_c, max_c) ==
    LET size == MoldBlockSize(min_c, max_c)
        zs == ZSplit(min_c, max_c)
    IN  CreationBox(<< size[1], size[2], size[3] \div 2 >>,
                    << (min_c[1] + max_c[1]) \div 2,
                       (min_c[2] + max_c[2]) \div 2,
                       zs + size[3] \div 4 >>)

BottomSplitBox(min_c, max_c) ==
    LET size == MoldBlockSize(min_c, max_c)
        zs == ZSplit(min_c, max_c)
    IN  CreationBox(<< size[1], size[2], size[3] \div 2 >>,
                    << (min_c[1] + max_c[1]) \div 2,
                       (min_c[2] + max_c[2]) \div 2,
                       zs - size[3] \div 4 >>)

\* variant: keys inset by two wall thicknesses from the block corners
KeyPositions_DoubleInset(wt, min_c, max_c, zs) ==
    << << min_c[1] + 2 * wt, min_c[2] + 2 * wt, zs >>,
       << max_c[1] - 2 * wt, min_c[2] + 2 * wt, zs >>,
       << min_c[1] + 2 * wt, max_c[2] - 2 * wt, zs >>,
       << max_c[1] - 2 * wt, max_c[2] - 2 * wt, zs >> >>

KeyPositions(wt, min_c, max_c, zs) ==
    << << min_c[1] + wt, min_c[2] + wt, zs >>,
       << max_c[1] - wt, min_c[2] + wt, zs >>,
       << min_c[1] + wt, max_c[2] - wt, zs >>,
       << max_c[1] - wt, max_c[2] - wt, zs >> >>

Key(position) ==
    ApplyTranslation(CreationCylinder(key_radius, key_height),
                     << position[1], position[2], position[3] >>)

\* ---------------------------------------------------------------- state
VARIABLES
    pc,                \* position of the run
    path_exists,       \* os.path.exists(args.input_file)
    printed,           \* messages written to standard output
    error,             \* exception that ended the run, "none" otherwise
    original_mesh,
    min_corner, max_corner,
    mold_block,
    mold_with_cavity,
    z_split,
    top_split_box, bottom_split_box,
    mold_top, mold_bottom,
    keys_done,         \* iterations of the key loop completed
    pour_spout,
    files,             \* output files written: name -> contents
    loaded,            \* history: the mesh load_mesh returned
    steps              \* history: pipeline steps executed, in order

geom == << min_corner, max_corner, mold_block, mold_with_cavity, z_split,
           top_split_box, bottom_split_box >>
halves == << mold_top, mold_bottom, keys_done >>
vars == << pc, path_exists, printed, error, original_mesh, geom, halves,
           pour_spout, files, loaded, steps >>

InputMeshes ==
    { [kind |-> "mesh",
       bounds |-> << << -(k * ShiftStep), -(k * ShiftStep), -(k * ShiftStep) >>,
                     << sx * SizeStep - k * ShiftStep,
                        sy * SizeStep - k * ShiftStep,
                        sz * SizeStep - k * ShiftStep >> >>,
       is_watertight |-> w] :
      sx \in 1..MaxSize, sy \in 1..MaxSize, sz \in 1..MaxSize,
      k \in 0..MaxShift, w \in BOOLEAN }

Init ==
    /\ pc = "main"
    /\ path_exists = FALSE
    /\ printed = {}
    /\ error = "none"
    /\ original_mesh = NoMesh
    /\ min_corner = Origin
    /\ max_corner = Origin
    /\ mold_block = NoBox
    /\ mold_with_cavity = {}
    /\ z_split = 0
    /\ top_split_box = NoBox
    /\ bottom_split_box = NoBox
    /\ mold_top = NoHalf
    /\ mold_bottom = NoHalf
    /\ keys_done = 0
    /\ pour_spout = NoCylinder
    /\ files = {}
    /\ loaded = NoMesh
    /\ steps = << >>

\* an exception propagates out of the script: nothing catches it
Raise(e) ==
    /\ pc' = "crashed"
    /\ error' = e

\* variant: the existence test without its else branch
Main_NoElse ==
    /\ pc = "main"
    /\ \E exists \in BOOLEAN :
         /\ path_exists' = exists
         /\ printed' = IF exists THEN printed ELSE printed \cup {"does not exist"}
         /\ pc' = "load"
         /\ steps' = Append(steps, "start")
    /\ UNCHANGED << error, original_mesh, geom, halves, pour_spout, files, loaded >>

\* lines 126-137
Main ==
    /\ pc = "main"
    /\ \E exists \in BOOLEAN :
         /\ path_exists' = exists
         /\ IF ~ exists
            THEN /\ printed' = printed \cup {"does not exist"}
                 /\ pc' = "done"
                 /\ steps' = steps
            ELSE /\ printed' = printed
                 /\ pc' = "load"
                 /\ steps' = Append(steps, "start")
    /\ UNCHANGED << error, original_mesh, geom, halves, pour_spout, files, loaded >>

\* line 43
LoadMesh ==
    /\ pc = "load"
    /\ \/ \E m \in InputMeshes :
            /\ original_mesh' = m
            /\ loaded' = m
            /\ steps' = Append(steps, "load")
            /\ pc' = "watertight"
            /\ UNCHANGED error
       \/ /\ Raise("LibraryError")
          /\ UNCHANGED << original_mesh, loaded, steps >>
    /\ UNCHANGED << path_exists, printed, geom, halves, pour_spout, files >>

\* what trimesh.repair.fill_holes(mesh) hands back: the mesh with every hole
\* closed, the mesh with holes left, or the library's success flag in place
\* of a mesh
FillHolesResults(mesh) ==
    { [mesh EXCEPT !.is_watertight = TRUE],
      mesh,
      [mesh EXCEPT !.kind = "flag"] }

\* lines 46-47
EnsureWatertight ==
    /\ pc = "watertight"
    /\ IF ~ original_mesh.is_watertight
       THEN \E r \in FillHolesResults(original_mesh) : original_mesh' = r
       ELSE original_mesh' = original_mesh
    /\ steps' = Append(steps, "watertight")
    /\ pc' = "block"
    /\ UNCHANGED << path_exists, printed, error, geom, halves, pour_spout, files, loaded >>

\* lines 50-63
CreateMoldBlock ==
    /\ pc = "block"
    /\ IF original_mesh.kind # "mesh"
       THEN /\ Raise("AttributeError")
            /\ UNCHANGED << min_corner, max_corner, mold_block, steps >>
       ELSE /\ min_corner' = MinCorner(original_mesh, wall_thickness)
            /\ max_corner' = MaxCorner(original_mesh, wall_thickness)
            /\ mold_block' = MoldBlock(min_corner', max_corner')
            /\ steps' = Append(steps, "block")
            /\ pc' = "carve"
            /\ UNCHANGED error
    /\ UNCHANGED << path_exists, printed, original_mesh, mold_with_cavity, z_split,
                    top_split_box, bottom_split_box, halves, pour_spout, files, loaded >>

\* line 66
CarveCavity ==
    /\ pc = "carve"
    /\ \/ /\ mold_with_cavity' = BooleanDifferenceBox(mold_block, original_mesh)
          /\ steps' = Append(steps, "carve")
          /\ pc' = "split"
          /\ UNCHANGED error
       \/ /\ Raise("LibraryError")
          /\ UNCHANGED << mold_with_cavity, steps >>
    /\ UNCHANGED << path_exists, printed, original_mesh, min_corner, max_corner,
                    mold_block, z_split, top_split_box, bottom_split_box, halves,
                    pour_spout, files, loaded >>

\* lines 69-90
SplitMold ==
    /\ pc = "split"
    /\ \/ /\ z_split' = ZSplit(min_corner, max_corner)
          /\ top_split_box' = TopSplitBox(min_corner, max_corner)
          /\ bottom_split_box' = BottomSplitBox(min_corner, max_corner)
          /\ mold_top' = [NoHalf EXCEPT !.base = BooleanIntersectionBox(mold_with_cavity, top_split_box')]
          /\ mold_bottom' = [NoHalf EXCEPT !.base = BooleanIntersectionBox(mold_with_cavity, bottom_split_box')]
          /\ steps' = Append(steps, "split")
          /\ pc' = "keys"
          /\ UNCHANGED error
       \/ /\ Raise("LibraryError")
          /\ UNCHANGED << z_split, top_split_box, bottom_split_box, mold_top, mold_bottom, steps >>
    /\ UNCHANGED << path_exists, printed, original_mesh, min_corner, max_corner,
                    mold_block, mold_with_cavity, keys_done, pour_spout, files, loaded >>

\* lines 102-107: one iteration of the key loop
AddKey ==
    /\ pc = "keys"
    /\ keys_done < Len(KeyPositions(wall_thickness, min_corner, max_corner, z_split))
    /\ \/ LET position == KeyPositions(wall_thickness, min_corner, max_corner, z_split)[keys_done + 1]
              key == Key(position)
          IN  /\ mold_bottom' = BooleanUnionCylinder(mold_bottom, key)
              /\ mold_top' = BooleanDifferenceCylinder(mold_top, key)
              /\ keys_done' = keys_done + 1
              /\ steps' = Append(steps, "key")
              /\ UNCHANGED << pc, error >>
       \/ /\ Raise("LibraryError")
          /\ UNCHANGED << mold_top, mold_bottom, keys_done, steps >>
    /\ UNCHANGED << path_exists, printed, original_mesh, geom, pour_spout, files, loaded >>

\* lines 6-38 and 110-112: the call of create_pour_spout
CreatePourSpout ==
    /\ pc = "keys"
    /\ keys_done = Len(KeyPositions(wall_thickness, min_corner, max_corner, z_split))
    /\ \/ LET spout == PourSpoutGeometry(wall_thickness, min_corner, max_corner, z_split)
          IN  IF SpoutRejected(spout, mold_with_cavity)
              THEN /\ Raise("ValueError")
                   /\ UNCHANGED << pour_spout, steps >>
              ELSE /\ pour_spout' = spout
                   /\ steps' = Append(steps, "spout")
                   /\ pc' = "subtract"
                   /\ UNCHANGED error
       \/ /\ Raise("LibraryError")
          /\ UNCHANGED << pour_spout, steps >>
    /\ UNCHANGED << path_exists, printed, original_mesh, geom, halves, files, loaded >>

\* variant: the spout subtracted from both halves
SubtractSpout_BothHalves ==
    /\ pc = "subtract"
    /\ \/ /\ mold_bottom' = BooleanDifferenceCylinder(mold_bottom, pour_spout)
          /\ mold_top' = BooleanDifferenceCylinder(mold_top, pour_spout)
          /\ steps' = Append(steps, "subtract")
          /\ pc' = "export_top"
          /\ UNCHANGED error
       \/ /\ Raise("LibraryError")
          /\ UNCHANGED << mold_top, mold_bottom, steps >>
    /\ UNCHANGED << path_exists, printed, original_mesh, geom, keys_done,
                    pour_spout, files, loaded >>

\* line 113
SubtractSpout ==
    /\ pc = "subtract"
    /\ \/ /\ mold_bottom' = BooleanDifferenceCylinder(mold_bottom, pour_spout)
          /\ steps' = Append(steps, "subtract")
          /\ pc' = "export_top"
          /\ UNCHANGED error
       \/ /\ Raise("LibraryError")
          /\ UNCHANGED << mold_bottom, steps >>
    /\ UNCHANGED << path_exists, printed, original_mesh, geom, mold_top, keys_done,
                    pour_spout, files, loaded >>

\* Trimesh.export(name): the file holds the solid, or the call raises
Export(name, half) == files \cup { [name |-> name, contents |-> half] }

\* lines 116-120
ExportTop ==
    /\ pc = "export_top"
    /\ \/ /\ files' = Export("mold_top", mold_top)
          /\ steps' = Append(steps, "export_top")
          /\ pc' = "export_bottom"
          /\ UNCHANGED error
       \/ /\ Raise("LibraryError")
          /\ UNCHANGED << files, steps >>
    /\ UNCHANGED << path_exists, printed, original_mesh, geom, halves, pour_spout, loaded >>

\* lines 121-123
ExportBottom ==
    /\ pc = "export_bottom"
    /\ \/ /\ files' = Export("mold_bottom", mold_bottom)
          /\ steps' = Append(steps, "export_bottom")
          /\ printed' = printed \cup {"saved"}
          /\ pc' = "done"
          /\ UNCHANGED error
       \/ /\ Raise("LibraryError")
          /\ UNCHANGED << files, steps, printed >>
    /\ UNCHANGED << path_exists, original_mesh, geom, halves, pour_spout, loaded >>

Next ==
    \/ Main
    \/ LoadMesh
    \/ EnsureWatertight
    \/ CreateMoldBlock
    \/ CarveCavity
    \/ SplitMold
    \/ AddKey
    \/ CreatePourSpout
    \/ SubtractSpout
    \/ ExportTop
    \/ ExportBottom

Spec == Init /\ [][Next]_vars

\* ---------------------------------------------------------- properties
\* the negative space of the block: the part of it the loaded solid occupied
Cavity == BoxIntersection(mold_block, [lo |-> loaded.bounds[1], hi |-> loaded.bounds[2]])

\* create_pour_spout returned a spout instead of raising
SpoutAccepted == pour_spout # NoCylinder

CylinderTop(cyl) == cyl.centre[3] + cyl.height \div 2
CylinderBottom(cyl) == cyl.centre[3] - cyl.height \div 2

\* some point of the cylinder lies on or outside the boundary of the box
ReachesOutside(cyl, b) ==
    \/ cyl.centre[1] - cyl.radius <= b.lo[1]
    \/ cyl.centre[1] + cyl.radius >= b.hi[1]
    \/ cyl.centre[2] - cyl.radius <= b.lo[2]
    \/ cyl.centre[2] + cyl.radius >= b.hi[2]
    \/ CylinderBottom(cyl) <= b.lo[3]
    \/ CylinderTop(cyl) >= b.hi[3]

Ran(step) == \E i \in DOMAIN steps : steps[i] = step
Count(step) == Cardinality({ i \in DOMAIN steps : steps[i] = step })
Written(name) == \E f \in files : f.name = name
Ended == pc \in {"done", "crashed"}

\* the input is what the script is written for: a closed solid
SolidInput == loaded.kind = "mesh" /\ loaded.is_watertight

\* C1: for a watertight input solid, an accepted spout shares volume with the
\* cavity (the negative space the solid left in the block); a spout that
\* does not is rejected.
C1_AcceptedSpoutMeetsCavity ==
    (SolidInput /\ SpoutAccepted) => CylinderMeetsBox(pour_spout, Cavity)

\* C2: a run on a watertight solid in which a step fails leaves no output
\* file; such a run ends with both output files written or with neither.
C2_NoPartialResult ==
    (SolidInput /\ Ended) =>
        /\ (error # "none" => files = {})
        /\ (Written("mold_top") <=> Written("mold_bottom"))

\* C3: with a missing path the program prints the error and ends normally
\* having loaded nothing, run no pipeline step and written no file; with an
\* existing path the pipeline is started exactly once.
C3_MissingPathNoAction ==
    pc # "main" =>
        /\ ~ path_exists =>
              /\ pc = "done"
              /\ error = "none"
              /\ printed = {"does not exist"}
              /\ loaded = NoMesh
              /\ original_mesh = NoMesh
              /\ steps = << >>
              /\ files = {}
        /\ path_exists => Count("start") = 1

C3_Witness ==
    /\ pc = "done"
    /\ ~ path_exists
    /\ "does not exist" \in printed

\* C4: the enclosure block has extents (bmax - bmin) + 2 * t on each axis, is
\* centred at the bounding-box midpoint and leaves a margin of exactly t
\* between the bounding box and each of its six faces.
C4_EnclosureMargin ==
    Ran("block") =>
        \A i \in Axes :
            LET bmin == loaded.bounds[1][i]
                bmax == loaded.bounds[2][i]
            IN  /\ mold_block.hi[i] - mold_block.lo[i] = (bmax - bmin) + 2 * mm(10)
                /\ mold_block.lo[i] + mold_block.hi[i] = bmin + bmax
                /\ bmin - mold_block.lo[i] = mm(10)
                /\ mold_block.hi[i] - bmax = mm(10)

C4_Witness ==
    /\ Ran("block")
    /\ loaded.bounds[1] = << -mm(25), -mm(25), -mm(25) >>
    /\ loaded.bounds[2] = << -mm(10), mm(10), mm(0) >>
    /\ mold_block.lo = << -mm(35), -mm(35), -mm(35) >>
    /\ mold_block.hi = << mm(0), mm(20), mm(10) >>

\* regions as unions of boxes, compared on the cells of their common grid
Coords(R, i) == UNION { {b.lo[i], b.hi[i]} : b \in R }
Consecutive(S) == { p \in S \X S : p[1] < p[2] /\ ~ \E c \in S : p[1] < c /\ c < p[2] }
Cells(R) ==
    { [lo |-> << x[1], y[1], z[1] >>, hi |-> << x[2], y[2], z[2] >>] :
        x \in Consecutive(Coords(R, 1)),
        y \in Consecutive(Coords(R, 2)),
        z \in Consecutive(Coords(R, 3)) }
Covers(R, cell) == \E b \in R : BoxInBox(cell, b)

\* C5: the split boxes span the full x/y extent of the block and the half of
\* its z extent on their side of z_split = (min_z + max_z) / 2; right after
\* the two intersections top + bottom is the shelled block and top and
\* bottom share no volume.
C5_ExactPartition ==
    (pc = "keys" /\ keys_done = 0) =>
        /\ 2 * z_split = min_corner[3] + max_corner[3]
        /\ top_split_box = [lo |-> << mold_block.lo[1], mold_block.lo[2], z_split >>,
                            hi |-> mold_block.hi]
        /\ bottom_split_box = [lo |-> mold_block.lo,
                               hi |-> << mold_block.hi[1], mold_block.hi[2], z_split >>]
        /\ \A cell \in Cells(mold_with_cavity \cup mold_top.base \cup mold_bottom.base
                              \cup {mold_block}) :
              /\ Covers(mold_with_cavity, cell)
                   <=> (Covers(mold_top.base, cell) \/ Covers(mold_bottom.base, cell))
              /\ ~ (Covers(mold_top.base, cell) /\ Covers(mold_bottom.base, cell))

C5_Witness ==
    /\ pc = "keys"
    /\ keys_done = 0
    /\ mold_top.base # {}
    /\ mold_bottom.base # {}
    /\ \E m \in mold_with_cavity : m.lo[3] < z_split /\ z_split < m.hi[3]

\* the top half as the key loop leaves it
TopAfterKeys ==
    [base |-> BooleanIntersectionBox(mold_with_cavity, top_split_box),
     added |-> {},
     removed |-> { Key(KeyPositions(mm(10), min_corner, max_corner, z_split)[j]) : j \in 1..4 }]

\* C6: the spout is subtracted from the bottom half and from nothing else;
\* the top half, and the top half that is exported, is the top half the key
\* loop left.
C6_SpoutOnlyInBottom ==
    Ran("subtract") =>
        /\ mold_bottom.removed = {pour_spout}
        /\ pour_spout \notin mold_top.removed
        /\ mold_top = TopAfterKeys
        /\ \A f \in files : f.name = "mold_top" => f.contents = TopAfterKeys

C6_Witness ==
    /\ Ran("subtract")
    /\ SpoutAccepted
    /\ \E f \in files : f.name = "mold_top" /\ f.contents = mold_top

\* the end-to-end scenario: a 50 x 50 x 50 cube centred on the origin
CubeScenario ==
    /\ loaded.bounds = << << -mm(25), -mm(25), -mm(25) >>, << mm(25), mm(25), mm(25) >> >>
    /\ loaded.is_watertight

KeysAt(d) ==
    { [centre |-> << sx * d, sy * d, 0 >>, radius |-> mm(5) \div 2, height |-> mm(10)] :
        sx \in {-1, 1}, sy \in {-1, 1} }

CubeEnclosure ==
    /\ mold_block.hi[1] - mold_block.lo[1] = mm(70)
    /\ mold_block.hi[2] - mold_block.lo[2] = mm(70)
    /\ mold_block.hi[3] - mold_block.lo[3] = mm(70)
    /\ z_split = 0

\* C7 as stated: in the cube scenario the enclosure is 70 x 70 x 70, the split
\* plane is z = 0 and the four keys (radius 2.5, height 10) sit at
\* (+-15, +-15, 0).
C7_KeysAt15 ==
    (CubeScenario /\ pc = "keys" /\ keys_done = 4) =>
        /\ CubeEnclosure
        /\ mold_bottom.added = KeysAt(mm(15))
        /\ mold_top.removed = KeysAt(mm(15))

\* C7 amended: in the cube scenario the enclosure is 70 x 70 x 70, the split
\* plane is z = 0 and the four keys (radius 2.5, height 10) sit at
\* (+-25, +-25, 0), centred on the vertical corner edges of the cavity.
C7_KeysAt25 ==
    (CubeScenario /\ pc = "keys" /\ keys_done = 4) =>
        /\ CubeEnclosure
        /\ mold_bottom.added = KeysAt(mm(25))
        /\ mold_top.removed = KeysAt(mm(25))
        /\ \A k \in mold_bottom.added :
              /\ k.centre[1] \in {Cavity.lo[1], Cavity.hi[1]}
              /\ k.centre[2] \in {Cavity.lo[2], Cavity.hi[2]}

C7_Witness ==
    /\ CubeScenario
    /\ pc = "keys"
    /\ keys_done = 4
    /\ Cardinality(mold_bottom.added) = 4

C9_SpoutBelowSplit ==
    (SolidInput /\ SpoutAccepted) => CylinderTop(pour_spout) <= z_split

\* C10: for a watertight input solid, an accepted spout is a channel from the
\* outside of the block to the cavity: when it reaches the cavity it also
\* reaches a face of the enclosure block.
C10_SpoutIsChannel ==
    (SolidInput /\ SpoutAccepted /\ CylinderMeetsBox(pour_spout, Cavity)) =>
        ReachesOutside(pour_spout, mold_block)
====
